---- MODULE Spec2Model ----
(***************************************************************************)
(* Model of cmd/influx_inspect/cardinality: Command.Run and                *)
(* initFieldsAndSeries.  Byte strings (directory names, storage keys) are  *)
(* sequences of one-character strings.                                     *)
(***************************************************************************)
EXTENDS Integers, Sequences, FiniteSets, TLC

\* ------------------------------------------------------------------ bounds
\* storage files the shard walk hands to the callback, per shard
MaxFiles == 2
\* largest KeyCount() of one storage file
MaxKeys == 3

\* ------------------------------------------------------- byte-string helpers
\* the characters of the model in ascending byte order (filepath.Walk visits
\* the entries of a directory in lexical order)
CharOrder ==
  <<"!", "#", ",", "-", "0", "1", "7", "8", "_", "a", "b", "c", "d", "e",
    "g", "i", "m", "n", "o", "p", "r", "s", "t", "u", "v", "x", "~">>

Code(c) == CHOOSE i \in 1..Len(CharOrder) : CharOrder[i] = c

RECURSIVE LexLess(_, _)
LexLess(a, b) ==
  IF a = <<>> THEN b # <<>>
  ELSE IF b = <<>> THEN FALSE
  ELSE IF Code(Head(a)) # Code(Head(b)) THEN Code(Head(a)) < Code(Head(b))
  ELSE LexLess(Tail(a), Tail(b))

Digits == <<"0", "1", "2", "3", "4", "5", "6", "7", "8", "9">>

IsDigit(c) == \E i \in 1..Len(Digits) : Digits[i] = c

DigitVal(c) == (CHOOSE i \in 1..Len(Digits) : Digits[i] = c) - 1

RECURSIVE DigitsVal(_)
DigitsVal(d) ==
  IF d = <<>> THEN 0
  ELSE DigitsVal(SubSeq(d, 1, Len(d) - 1)) * 10 + DigitVal(d[Len(d)])

\* strconv.Atoi: an optional sign, then one or more decimal digits
Atoi(s) ==
  LET signed == Len(s) > 0 /\ s[1] \in {"-", "+"}
      body   == IF signed THEN Tail(s) ELSE s
      ok     == Len(body) > 0 /\ \A i \in 1..Len(body) : IsDigit(body[i])
      mag    == DigitsVal(body)
  IN  IF ~ok THEN [ok |-> FALSE, val |-> 0]
      ELSE [ok |-> TRUE, val |-> IF signed /\ s[1] = "-" THEN 0 - mag ELSE mag]

\* uint64(id) of a Go int: the 64-bit two's complement pattern of id, kept as
\* four 16-bit limbs, most significant first (2^64 does not fit a TLC integer)
LimbBase == 2^16

ToUint64(n) ==
  LET top == IF n < 0 THEN LimbBase - 1 ELSE 0
  IN  <<top, top, (n \div LimbBase) % LimbBase, n % LimbBase>>

\* the uint64 whose value is the non-negative number n
Uint64Of(n) == <<0, 0, n \div LimbBase, n % LimbBase>>

\* the separator of a raw key, []byte("#!~#")
Sep == <<"#", "!", "~", "#">>

\* mutant of Cut: a key without the separator has no part before it
CutNothingBefore(s, sep) ==
  LET n    == Len(sep)
      hits == {i \in 1..(Len(s) - n + 1) : SubSeq(s, i, i + n - 1) = sep}
  IN  IF hits = {}
      THEN [before |-> <<>>, after |-> s, found |-> FALSE]
      ELSE LET i == CHOOSE h \in hits : \A g \in hits : h <= g
           IN  [before |-> SubSeq(s, 1, i - 1),
                after  |-> SubSeq(s, i + n, Len(s)),
                found  |-> TRUE]

\* mutant of Cut: split around the last occurrence of sep
CutLast(s, sep) ==
  LET hits == {i \in 1..(Len(s) - Len(sep) + 1) :
                 SubSeq(s, i, i + Len(sep) - 1) = sep}
  IN  IF hits = {} THEN [before |-> s, after |-> <<>>, found |-> FALSE]
      ELSE LET i == CHOOSE j \in hits : \A h \in hits : j >= h
           IN  [before |-> SubSeq(s, 1, i - 1),
                after  |-> SubSeq(s, i + Len(sep), Len(s)),
                found  |-> TRUE]

\* bytes.Cut(s, sep): split around the first occurrence of sep
Cut(s, sep) ==
  LET hits == {i \in 1..(Len(s) - Len(sep) + 1) :
                 SubSeq(s, i, i + Len(sep) - 1) = sep}
  IN  IF hits = {} THEN [before |-> s, after |-> <<>>, found |-> FALSE]
      ELSE LET i == CHOOSE j \in hits : \A h \in hits : j <= h
           IN  [before |-> SubSeq(s, 1, i - 1),
                after  |-> SubSeq(s, i + Len(sep), Len(s)),
                found  |-> TRUE]

\* models.ParseKey: the measurement name is the series key up to its first
\* comma (no escaped commas occur in the keys of the model)
ParseKey(seriesKey) == Cut(seriesKey, <<",">>).before

\* ------------------------------------------------------------ maps (Go map)
EmptyMap == [x \in {} |-> {}]

MapSet(m, k, v) == [x \in (DOMAIN m) \cup {k} |-> IF x = k THEN v ELSE m[x]]

\* ------------------------------------------------------------ report.Counter
\* report.NewExactCounter: a deduplicating set of the items added
NewExactCounter == [kind |-> "exact", items |-> {}]

\* report.NewHLLCounter: a sketch of the items added
NewHLLCounter == [kind |-> "hll", items |-> {}]

\* mutant of NewCounter: the factory ignores the selection
NewCounterAlwaysHLL(fn) == NewHLLCounter

\* the factory selected at lines 95-98
NewCounter(fn) == IF fn = "exact" THEN NewExactCounter ELSE NewHLLCounter

\* Counter.Add
CounterAdd(c, item) == [c EXCEPT !.items = @ \cup {item}]

\* relative error of the sketch: Count() lies within n \div HLLErrDiv of the
\* number n of distinct items (coarse, so that the error shows at model sizes)
HLLErrDiv == 3

\* Counter.Count: the values a call may return
CounterCounts(c) ==
  LET n == Cardinality(c.items)
  IN  IF c.kind = "exact" THEN {n}
      ELSE (n - (n \div HLLErrDiv))..(n + (n \div HLLErrDiv))

\* --------------------------------------------------------- the cardinality index
\* mutant of initFieldsAndSeries: the bucket is created on every call
initFieldsAndSeriesAlwaysNew(toto, hp, db, rp, ms, fn) ==
  LET rpMap == IF db \in DOMAIN toto THEN toto[db] ELSE EmptyMap
      msMap == IF rp \in DOMAIN rpMap THEN rpMap[rp] ELSE EmptyMap
      m     == [fields |-> Len(hp) + 1, series |-> Len(hp) + 2]
  IN  [toto |-> MapSet(toto, db, MapSet(rpMap, rp, MapSet(msMap, ms, m))),
       heap |-> hp \o <<NewCounter(fn), NewCounter(fn)>>,
       m    |-> m]

\* initFieldsAndSeries: get-or-create at the three levels of toto; counters live
\* in the heap hp and a bucket holds the addresses of its two counters
initFieldsAndSeries(toto, hp, db, rp, ms, fn) ==
  LET rpMap   == IF db \in DOMAIN toto THEN toto[db] ELSE EmptyMap
      msMap   == IF rp \in DOMAIN rpMap THEN rpMap[rp] ELSE EmptyMap
      present == ms \in DOMAIN msMap
      m       == IF present THEN msMap[ms]
                 ELSE [fields |-> Len(hp) + 1, series |-> Len(hp) + 2]
      hp2     == IF present THEN hp
                 ELSE hp \o <<NewCounter(fn), NewCounter(fn)>>
  IN  [toto |-> MapSet(toto, db, MapSet(rpMap, rp, MapSet(msMap, ms, m))),
       heap |-> hp2,
       m    |-> m]

\* the (database, retention policy, measurement) triples that have a bucket
Triples(toto) ==
  UNION {UNION {{<<d, r, m>> : m \in DOMAIN toto[d][r]} : r \in DOMAIN toto[d]} :
         d \in DOMAIN toto}

BucketOf(toto, t) == toto[t[1]][t[2]][t[3]]

\* ------------------------------------------------------------ the directory tree
\* names of the model
NameData    == <<"d", "a", "t", "a">>
NameDb0     == <<"d", "b", "0">>
NameAutogen == <<"a", "u", "t", "o", "g", "e", "n">>
NameNeg1    == <<"-", "1">>
Name07      == <<"0", "7">>
Name7       == <<"7">>
Name8       == <<"8">>
NameIndex   == <<"i", "n", "d", "e", "x">>
\* tsdb.SeriesFileDirectory
SeriesFileDirectory == <<"_", "s", "e", "r", "i", "e", "s">>

\* the tree under -db-path: node 1 is the root, 2 a database, 3 a retention
\* policy, 4 and 5 its entries, 6 an entry of 5
Nodes == 1..6

Parent == <<0, 1, 2, 3, 3, 5>>

\* names of nodes 4 and 5 (in lexical order) and whether node 4 is a directory:
\* two shards; a regular file with a numeric name beside a shard; two names of
\* one number; a negative number beside the series file; a shard beside an
\* index
DirLayouts ==
  {<<Name7, Name8, TRUE>>, <<Name7, Name8, FALSE>>, <<Name07, Name7, TRUE>>,
   <<NameNeg1, SeriesFileDirectory, TRUE>>, <<Name7, NameIndex, TRUE>>}

Children(n) == {c \in Nodes : Parent[c] = n}

RECURSIVE SortByName(_, _)
SortByName(S, nm) ==
  IF S = {} THEN <<>>
  ELSE LET f == CHOOSE x \in S : \A y \in S \ {x} : LexLess(nm[x], nm[y])
       IN  <<f>> \o SortByName(S \ {f}, nm)

\* the raw keys a storage file may hold
KeyCpuAValue == <<"c", ",", "a">> \o Sep \o <<"v">>
KeyCpuBValue == <<"c", ",", "b">> \o Sep \o <<"v">>
KeyMemAUsed  == <<"m", ",", "a">> \o Sep \o <<"u">>
KeyCpuAUsed  == <<"c", ",", "a">> \o Sep \o <<"u">>
KeyNoSep     == <<"c", ",", "b">>

KeyPool == {KeyCpuAValue, KeyCpuBValue, KeyMemAUsed, KeyCpuAUsed, KeyNoSep}

\* ------------------------------------------------------------------- state
VARIABLES
  pc,            \* position in Run
  result,        \* what Run returned: "none" while running, "nil" or an error
  dbPathSet,     \* cmd.dbPath # ""
  exact,         \* cmd.exact
  names,         \* name of each node of the tree
  isDir,         \* info.IsDir() of each node
  walkStack,     \* nodes filepath.Walk has still to visit, next first
  shardPaths,    \* cmd.shardPaths: uint64 id -> path (a node)
  estTitle,      \* estTitle
  newCounterFn,  \* newCounterFn: "none" before line 95, then "hll" or "exact"
  todo,          \* entries of cmd.shardPaths the range loop has still to visit
  cur,           \* shard path being walked (0: none)
  nfile,         \* storage files of cur handed to the callback so far
  reader,        \* the TSM reader of the current file
  openFiles,     \* files opened and not yet closed
  dbMap,         \* dbMap
  heap,          \* the Counter objects, by address
  stderr,        \* kinds of diagnostics written to cmd.Stderr
  out,           \* lines written to the tabwriter
  flushed,       \* tw.Flush() succeeded
  c2Cardinality, \* c2Cardinality
  seriesTotal,   \* seriesTotal
  fieldsTotal,   \* fieldsTotal
  routed,        \* history: <<db, rp, measurement, key>> of every key processed
  walked,        \* history: how often each path was passed to WalkShardDirs
  concurrency,   \* cmd.concurrency
  cutKey,        \* a raw key handed to bytes.Cut
  cutParts       \* what bytes.Cut returned for cutKey

vars ==
  <<pc, result, dbPathSet, exact, names, isDir, walkStack, shardPaths, estTitle,
    newCounterFn, todo, cur, nfile, reader, openFiles, dbMap, heap, stderr, out,
    flushed, c2Cardinality, seriesTotal, fieldsTotal, routed, walked,
    concurrency, cutKey, cutParts>>

\* the flag -c, and the key and result of a decomposition looked at on its own:
\* no step of the scan or of the report changes them
aside == <<concurrency, cutKey, cutParts>>

\* values of -c; the default is runtime.GOMAXPROCS(0)
ConcurrencyLevels == {1, 2, 4}

NoReader == [open |-> FALSE, n |-> 0, i |-> 0]

IsReserved(nm) == nm = SeriesFileDirectory \/ nm = NameIndex

Init ==
  /\ pc = "start"
  /\ result = "none"
  /\ dbPathSet \in BOOLEAN
  /\ exact \in BOOLEAN
  /\ \E rp \in {NameAutogen, NameIndex}, ab \in DirLayouts,
        c \in {Name8, NameIndex} :
       /\ LexLess(ab[1], ab[2])
       /\ Atoi(c).ok => IsReserved(ab[2])
       /\ names = <<NameData, NameDb0, rp, ab[1], ab[2], c>>
       /\ isDir = <<TRUE, TRUE, TRUE, ab[3], TRUE, TRUE>>
  /\ walkStack = <<1>>
  /\ shardPaths = EmptyMap
  /\ estTitle = " (estimated)"
  /\ newCounterFn = "none"
  /\ todo = {}
  /\ cur = 0
  /\ nfile = 0
  /\ reader = NoReader
  /\ openFiles = {}
  /\ dbMap = EmptyMap
  /\ heap = <<>>
  /\ stderr = {}
  /\ out = <<>>
  /\ flushed = FALSE
  /\ c2Cardinality = 0
  /\ seriesTotal = 0
  /\ fieldsTotal = 0
  /\ routed = {}
  /\ walked = [n \in Nodes |-> 0]
  /\ concurrency = 1
  /\ cutKey = <<>>
  /\ cutParts = Cut(<<>>, Sep)

\* ------------------------------------------------------------------ actions
\* lines 47-61: flag parsing and the required -db-path
Start ==
  /\ pc = "start"
  /\ IF dbPathSet
     THEN pc' = "walk" /\ result' = result
     ELSE pc' = "done" /\ result' = "errDbPath"
  /\ UNCHANGED aside
  /\ UNCHANGED <<dbPathSet, exact, names, isDir, walkStack, shardPaths, estTitle,
                 newCounterFn, todo, cur, nfile, reader, openFiles, dbMap, heap,
                 stderr, out, flushed, c2Cardinality, seriesTotal, fieldsTotal,
                 routed, walked>>

\* mutant of WalkVisit: the reserved names are not skipped
WalkVisitNoSkip ==
  /\ pc = "walk"
  /\ walkStack # <<>>
  /\ LET n    == Head(walkStack)
         rest == Tail(walkStack)
         kids == SortByName(Children(n), names)
         id   == Atoi(names[n])
     IN  IF ~isDir[n]
         THEN /\ walkStack' = rest
              /\ shardPaths' = shardPaths
         ELSE IF ~id.ok
         THEN /\ walkStack' = kids \o rest
              /\ shardPaths' = shardPaths
         ELSE /\ walkStack' = kids \o rest
              /\ shardPaths' = MapSet(shardPaths, ToUint64(id.val), n)
  /\ UNCHANGED aside
  /\ UNCHANGED <<pc, result, dbPathSet, exact, names, isDir, estTitle,
                 newCounterFn, todo, cur, nfile, reader, openFiles, dbMap, heap,
                 stderr, out, flushed, c2Cardinality, seriesTotal, fieldsTotal,
                 routed, walked>>

\* lines 64-84: the callback of filepath.Walk on the next entry, err == nil
WalkVisit ==
  /\ pc = "walk"
  /\ walkStack # <<>>
  /\ LET n    == Head(walkStack)
         rest == Tail(walkStack)
         kids == SortByName(Children(n), names)
         id   == Atoi(names[n])
     IN  IF ~isDir[n]
         THEN /\ walkStack' = rest
              /\ shardPaths' = shardPaths
         ELSE IF names[n] = SeriesFileDirectory \/ names[n] = NameIndex
         THEN /\ walkStack' = rest
              /\ shardPaths' = shardPaths
         ELSE IF ~id.ok
         THEN /\ walkStack' = kids \o rest
              /\ shardPaths' = shardPaths
         ELSE /\ walkStack' = kids \o rest
              /\ shardPaths' = MapSet(shardPaths, ToUint64(id.val), n)
  /\ UNCHANGED aside
  /\ UNCHANGED <<pc, result, dbPathSet, exact, names, isDir, estTitle,
                 newCounterFn, todo, cur, nfile, reader, openFiles, dbMap, heap,
                 stderr, out, flushed, c2Cardinality, seriesTotal, fieldsTotal,
                 routed, walked>>

\* mutant of WalkError: the error ends the walk and is dropped, Run goes on
\* with the shards recorded so far
WalkErrorDropped ==
  /\ pc = "walk"
  /\ walkStack # <<>>
  /\ walkStack' = <<>>
  /\ UNCHANGED aside
  /\ UNCHANGED <<pc, result, dbPathSet, exact, names, isDir, shardPaths,
                 estTitle, newCounterFn, todo, cur, nfile, reader, openFiles,
                 dbMap, heap, stderr, out, flushed, c2Cardinality, seriesTotal,
                 fieldsTotal, routed, walked>>

\* lines 65-67 and 85-87: the walk hands an error to the callback, Run returns it
WalkError ==
  /\ pc = "walk"
  /\ walkStack # <<>>
  /\ pc' = "done"
  /\ result' = "errWalk"
  /\ UNCHANGED aside
  /\ UNCHANGED <<dbPathSet, exact, names, isDir, walkStack, shardPaths, estTitle,
                 newCounterFn, todo, cur, nfile, reader, openFiles, dbMap, heap,
                 stderr, out, flushed, c2Cardinality, seriesTotal, fieldsTotal,
                 routed, walked>>

\* mutant of NoShards: the diagnostic is written and Run goes on to the report
NoShardsFallsThrough ==
  /\ pc = "walk"
  /\ walkStack = <<>>
  /\ DOMAIN shardPaths = {}
  /\ stderr' = stderr \cup {"noShards"}
  /\ newCounterFn' = IF exact THEN "exact" ELSE "hll"
  /\ estTitle' = IF exact THEN "" ELSE " (estimated)"
  /\ pc' = "scan"
  /\ UNCHANGED aside
  /\ UNCHANGED <<result, dbPathSet, exact, names, isDir, walkStack, shardPaths,
                 todo, cur, nfile, reader, openFiles, dbMap, heap, out, flushed,
                 c2Cardinality, seriesTotal, fieldsTotal, routed, walked>>

\* lines 89-92: no shard found
NoShards ==
  /\ pc = "walk"
  /\ walkStack = <<>>
  /\ DOMAIN shardPaths = {}
  /\ \E wrote \in BOOLEAN :
       /\ stderr' = IF wrote THEN stderr \cup {"noShards"} ELSE stderr
       /\ result' = IF wrote THEN "nil" ELSE "errStderr"
  /\ pc' = "done"
  /\ UNCHANGED aside
  /\ UNCHANGED <<dbPathSet, exact, names, isDir, walkStack, shardPaths, estTitle,
                 newCounterFn, todo, cur, nfile, reader, openFiles, dbMap, heap,
                 out, flushed, c2Cardinality, seriesTotal, fieldsTotal,
                 routed, walked>>

\* lines 94-99: the counting strategy and the title suffix
SelectCounter ==
  /\ pc = "walk"
  /\ walkStack = <<>>
  /\ DOMAIN shardPaths # {}
  /\ newCounterFn' = IF exact THEN "exact" ELSE "hll"
  /\ estTitle' = IF exact THEN "" ELSE " (estimated)"
  /\ todo' = DOMAIN shardPaths
  /\ pc' = "scan"
  /\ UNCHANGED aside
  /\ UNCHANGED <<result, dbPathSet, exact, names, isDir, walkStack, shardPaths,
                 cur, nfile, reader, openFiles, dbMap, heap, stderr, out,
                 flushed, c2Cardinality, seriesTotal, fieldsTotal, routed, walked>>

\* database and retention policy WalkShardDirs derives from the place of a
\* shard directory: <root>/<db>/<rp>/<id>
DbOf(p) == names[Parent[Parent[p]]]

RpOf(p) == names[Parent[p]]

\* mutant of ScanNextShard: the index is made anew for every shard
ScanNextShardFreshIndex ==
  /\ pc = "scan"
  /\ cur = 0
  /\ \E id \in todo :
       /\ cur' = shardPaths[id]
       /\ todo' = todo \ {id}
       /\ walked' = [walked EXCEPT ![shardPaths[id]] = @ + 1]
  /\ nfile' = 0
  /\ dbMap' = EmptyMap
  /\ heap' = <<>>
  /\ UNCHANGED aside
  /\ UNCHANGED <<pc, result, dbPathSet, exact, names, isDir, walkStack,
                 shardPaths, estTitle, newCounterFn, reader, openFiles, stderr,
                 out, flushed, c2Cardinality, seriesTotal, fieldsTotal, routed>>

\* line 101: the range loop takes the next entry of cmd.shardPaths (Go visits
\* the entries of a map in no fixed order) and line 102 starts its walk
ScanNextShard ==
  /\ pc = "scan"
  /\ cur = 0
  /\ \E id \in todo :
       /\ cur' = shardPaths[id]
       /\ todo' = todo \ {id}
       /\ walked' = [walked EXCEPT ![shardPaths[id]] = @ + 1]
  /\ nfile' = 0
  /\ UNCHANGED aside
  /\ UNCHANGED <<pc, result, dbPathSet, exact, names, isDir, walkStack,
                 shardPaths, estTitle, newCounterFn, reader, openFiles, dbMap,
                 heap, stderr, out, flushed, c2Cardinality, seriesTotal,
                 fieldsTotal, routed>>

\* mutant of ShardWalkError: the error of WalkShardDirs is reported and the
\* range loop goes on with the next shard
ShardWalkErrorContinues ==
  /\ pc = "scan"
  /\ cur # 0
  /\ ~reader.open
  /\ stderr' = stderr \cup {"shardWalk"}
  /\ cur' = 0
  /\ nfile' = 0
  /\ UNCHANGED aside
  /\ UNCHANGED <<pc, result, dbPathSet, exact, names, isDir, walkStack,
                 shardPaths, estTitle, newCounterFn, todo, reader, openFiles,
                 dbMap, heap, out, flushed, c2Cardinality, seriesTotal,
                 fieldsTotal, routed, walked>>

\* lines 129-132: WalkShardDirs returns an error, Run reports and returns it
ShardWalkError ==
  /\ pc = "scan"
  /\ cur # 0
  /\ ~reader.open
  /\ stderr' = stderr \cup {"shardWalk"}
  /\ result' = "errShardWalk"
  /\ pc' = "done"
  /\ UNCHANGED aside
  /\ UNCHANGED <<dbPathSet, exact, names, isDir, walkStack, shardPaths, estTitle,
                 newCounterFn, todo, cur, nfile, reader, openFiles, dbMap, heap,
                 out, flushed, c2Cardinality, seriesTotal, fieldsTotal,
                 routed, walked>>

\* mutant of OpenFail: the callback returns the error instead of nil
OpenFailReturnsErr ==
  /\ pc = "scan"
  /\ cur # 0
  /\ ~reader.open
  /\ nfile < MaxFiles
  /\ nfile' = nfile + 1
  /\ stderr' = stderr \cup {"skip"}
  /\ result' = "errOpen"
  /\ pc' = "done"
  /\ UNCHANGED aside
  /\ UNCHANGED <<dbPathSet, exact, names, isDir, walkStack, shardPaths, estTitle,
                 newCounterFn, todo, cur, reader, openFiles, dbMap, heap, out,
                 flushed, c2Cardinality, seriesTotal, fieldsTotal, routed, walked>>

\* lines 103-107: os.OpenFile fails
OpenFail ==
  /\ pc = "scan"
  /\ cur # 0
  /\ ~reader.open
  /\ nfile < MaxFiles
  /\ nfile' = nfile + 1
  /\ stderr' = stderr \cup {"skip"}
  /\ UNCHANGED aside
  /\ UNCHANGED <<pc, result, dbPathSet, exact, names, isDir, walkStack,
                 shardPaths, estTitle, newCounterFn, todo, cur, reader, openFiles,
                 dbMap, heap, out, flushed, c2Cardinality, seriesTotal,
                 fieldsTotal, routed, walked>>

\* mutant of ReaderFail: the callback returns without file.Close()
ReaderFailLeaksFile ==
  /\ pc = "scan"
  /\ cur # 0
  /\ ~reader.open
  /\ nfile < MaxFiles
  /\ nfile' = nfile + 1
  /\ stderr' = stderr \cup {"skip"}
  /\ openFiles' = openFiles \cup {<<cur, nfile + 1>>}
  /\ UNCHANGED aside
  /\ UNCHANGED <<pc, result, dbPathSet, exact, names, isDir, walkStack,
                 shardPaths, estTitle, newCounterFn, todo, cur, reader, dbMap,
                 heap, out, flushed, c2Cardinality, seriesTotal, fieldsTotal,
                 routed, walked>>

\* lines 103 and 109-114: the file opens, tsm1.NewTSMReader fails, the file is
\* closed again
ReaderFail ==
  /\ pc = "scan"
  /\ cur # 0
  /\ ~reader.open
  /\ nfile < MaxFiles
  /\ nfile' = nfile + 1
  /\ stderr' = stderr \cup {"skip"}
  /\ openFiles' = (openFiles \cup {<<cur, nfile + 1>>}) \ {<<cur, nfile + 1>>}
  /\ UNCHANGED aside
  /\ UNCHANGED <<pc, result, dbPathSet, exact, names, isDir, walkStack,
                 shardPaths, estTitle, newCounterFn, todo, cur, reader, dbMap,
                 heap, out, flushed, c2Cardinality, seriesTotal, fieldsTotal,
                 routed, walked>>

\* lines 103, 109 and 115: the file opens, the reader is built, KeyCount() read
OpenReader ==
  /\ pc = "scan"
  /\ cur # 0
  /\ ~reader.open
  /\ nfile < MaxFiles
  /\ nfile' = nfile + 1
  /\ \E seriesCount \in 0..MaxKeys :
       reader' = [open |-> TRUE, n |-> seriesCount, i |-> 0]
  /\ openFiles' = openFiles \cup {<<cur, nfile + 1>>}
  /\ UNCHANGED aside
  /\ UNCHANGED <<pc, result, dbPathSet, exact, names, isDir, walkStack,
                 shardPaths, estTitle, newCounterFn, todo, cur, dbMap, heap,
                 stderr, out, flushed, c2Cardinality, seriesTotal, fieldsTotal,
                 routed, walked>>

\* line 121: the item added to the series Counter
SeriesItem(key, seriesKey) == key

\* mutant of FieldItem: the whole key is added
FieldItemWholeKey(key, field) == key

\* line 122: the item added to the field Counter
FieldItem(key, field) == field

\* mutant of ProcessKey: an empty field name is not added to the field Counter
ProcessKeySkipsEmptyField ==
  /\ pc = "scan"
  /\ reader.open
  /\ reader.i < reader.n
  /\ \E key \in KeyPool :
       LET parts       == Cut(key, Sep)
           seriesKey   == parts.before
           field       == parts.after
           measurement == ParseKey(seriesKey)
           r  == initFieldsAndSeries(dbMap, heap, DbOf(cur), RpOf(cur),
                                     measurement, newCounterFn)
           fs == r.m
           h1 == [r.heap EXCEPT ![fs.series] =
                    CounterAdd(@, SeriesItem(key, seriesKey))]
           h2 == IF field = <<>> THEN h1
                 ELSE [h1 EXCEPT ![fs.fields] =
                         CounterAdd(@, FieldItem(key, field))]
       IN  /\ dbMap' = r.toto
           /\ heap' = h2
           /\ routed' = routed \cup {<<DbOf(cur), RpOf(cur), measurement, key>>}
  /\ reader' = [reader EXCEPT !.i = @ + 1]
  /\ UNCHANGED aside
  /\ UNCHANGED <<pc, result, dbPathSet, exact, names, isDir, walkStack,
                 shardPaths, estTitle, newCounterFn, todo, cur, nfile, openFiles,
                 stderr, out, flushed, c2Cardinality, seriesTotal, fieldsTotal,
                 walked>>

\* lines 116-123: one iteration of the key loop
ProcessKey ==
  /\ pc = "scan"
  /\ reader.open
  /\ reader.i < reader.n
  /\ \E key \in KeyPool :
       LET parts       == Cut(key, Sep)
           seriesKey   == parts.before
           field       == parts.after
           measurement == ParseKey(seriesKey)
           r  == initFieldsAndSeries(dbMap, heap, DbOf(cur), RpOf(cur),
                                     measurement, newCounterFn)
           fs == r.m
           h1 == [r.heap EXCEPT ![fs.series] =
                    CounterAdd(@, SeriesItem(key, seriesKey))]
           h2 == [h1 EXCEPT ![fs.fields] = CounterAdd(@, FieldItem(key, field))]
       IN  /\ dbMap' = r.toto
           /\ heap' = h2
           /\ routed' = routed \cup {<<DbOf(cur), RpOf(cur), measurement, key>>}
  /\ reader' = [reader EXCEPT !.i = @ + 1]
  /\ UNCHANGED aside
  /\ UNCHANGED <<pc, result, dbPathSet, exact, names, isDir, walkStack,
                 shardPaths, estTitle, newCounterFn, todo, cur, nfile, openFiles,
                 stderr, out, flushed, c2Cardinality, seriesTotal, fieldsTotal,
                 walked>>

\* mutant of CloseReader: a failed reader.Close() is returned by the callback
\* and ends the run
CloseReaderAborts ==
  /\ pc = "scan"
  /\ reader.open
  /\ reader.i = reader.n
  /\ \E closed \in BOOLEAN :
       /\ stderr' = IF closed THEN stderr ELSE stderr \cup {"closing"}
       /\ pc' = IF closed THEN pc ELSE "done"
       /\ result' = IF closed THEN result ELSE "errClose"
  /\ reader' = NoReader
  /\ openFiles' = openFiles \ {<<cur, nfile>>}
  /\ UNCHANGED aside
  /\ UNCHANGED <<dbPathSet, exact, names, isDir, walkStack,
                 shardPaths, estTitle, newCounterFn, todo, cur, nfile, dbMap,
                 heap, out, flushed, c2Cardinality, seriesTotal, fieldsTotal,
                 routed, walked>>

\* lines 124-127: reader.Close(), a failure is only reported
CloseReader ==
  /\ pc = "scan"
  /\ reader.open
  /\ reader.i = reader.n
  /\ \E closed \in BOOLEAN :
       stderr' = IF closed THEN stderr ELSE stderr \cup {"closing"}
  /\ reader' = NoReader
  /\ openFiles' = openFiles \ {<<cur, nfile>>}
  /\ UNCHANGED aside
  /\ UNCHANGED <<pc, result, dbPathSet, exact, names, isDir, walkStack,
                 shardPaths, estTitle, newCounterFn, todo, cur, nfile, dbMap,
                 heap, out, flushed, c2Cardinality, seriesTotal, fieldsTotal,
                 routed, walked>>

\* mutant of ShardWalkDone: the walk of the shard starts over with its first
\* file instead of returning
ShardWalkDoneStartsOver ==
  /\ pc = "scan"
  /\ cur # 0
  /\ ~reader.open
  /\ nfile' = 0
  /\ UNCHANGED aside
  /\ UNCHANGED <<pc, result, dbPathSet, exact, names, isDir, walkStack,
                 shardPaths, estTitle, newCounterFn, todo, cur, reader,
                 openFiles, dbMap, heap, stderr, out, flushed, c2Cardinality,
                 seriesTotal, fieldsTotal, routed, walked>>

\* lines 102 and 128-129: WalkShardDirs has no more file and returns nil
ShardWalkDone ==
  /\ pc = "scan"
  /\ cur # 0
  /\ ~reader.open
  /\ cur' = 0
  /\ nfile' = 0
  /\ UNCHANGED aside
  /\ UNCHANGED <<pc, result, dbPathSet, exact, names, isDir, walkStack,
                 shardPaths, estTitle, newCounterFn, todo, reader,
                 openFiles, dbMap, heap, stderr, out, flushed, c2Cardinality,
                 seriesTotal, fieldsTotal, routed, walked>>

\* mutant of ScanDone: the report starts when the walk of a shard has returned,
\* whether or not entries of cmd.shardPaths are left
ScanDoneEarly ==
  /\ pc = "scan"
  /\ cur = 0
  /\ todo # DOMAIN shardPaths
  /\ pc' = "header"
  /\ c2Cardinality' = 0
  /\ seriesTotal' = 0
  /\ fieldsTotal' = 0
  /\ UNCHANGED aside
  /\ UNCHANGED <<result, dbPathSet, exact, names, isDir, walkStack, shardPaths,
                 estTitle, newCounterFn, todo, cur, nfile, reader, openFiles,
                 dbMap, heap, stderr, out, flushed, routed, walked>>

\* lines 101 and 134-137: the range loop is over, the report starts
ScanDone ==
  /\ pc = "scan"
  /\ cur = 0
  /\ todo = {}
  /\ pc' = "header"
  /\ c2Cardinality' = 0
  /\ seriesTotal' = 0
  /\ fieldsTotal' = 0
  /\ UNCHANGED aside
  /\ UNCHANGED <<result, dbPathSet, exact, names, isDir, walkStack, shardPaths,
                 estTitle, newCounterFn, todo, cur, nfile, reader, openFiles,
                 dbMap, heap, stderr, out, flushed, routed, walked>>

\* -------------------------------------------------------------------- report
Line(kind, t, label, s, f, c) ==
  [kind |-> kind, d |-> t[1], r |-> t[2], m |-> t[3], label |-> label,
   series |-> s, fields |-> f, c2 |-> c]

NoTriple == <<<<>>, <<>>, <<>>>>

HeaderLine == Line("header", NoTriple, "", 0, 0, 0)

DashLine == Line("dashes", NoTriple, "", 0, 0, 0)

\* lines 151-157: the row of one bucket
RowLine(t, seriesN, fieldsN) == Line("row", t, "", seriesN, fieldsN, seriesN * fieldsN)

\* mutant of TotalLine: the combined total is the product of the two totals
TotalLineOfProducts(title, s, f, c) ==
  Line("total", NoTriple, "total" \o title, s, f, s * f)

\* line 170: the total row
TotalLine(title, s, f, c) == Line("total", NoTriple, "total" \o title, s, f, c)

Rows == {out[i] : i \in {j \in 1..Len(out) : out[j].kind = "row"}}

Reported == {<<l.d, l.r, l.m>> : l \in Rows}

Pending == Triples(dbMap) \ Reported

\* lines 146-148: the three nested range loops finish a retention policy, then
\* a database, before they move to the next
NextTriples ==
  IF out = <<>> \/ out[Len(out)].kind # "row" THEN Pending
  ELSE LET l      == out[Len(out)]
           sameRp == {t \in Pending : t[1] = l.d /\ t[2] = l.r}
           sameDb == {t \in Pending : t[1] = l.d}
       IN  IF sameRp # {} THEN sameRp
           ELSE IF sameDb # {} THEN sameDb
           ELSE Pending

\* lines 139-141: the header row
ReportHeader ==
  /\ pc = "header"
  /\ out' = Append(out, HeaderLine)
  /\ pc' = "dashes"
  /\ UNCHANGED aside
  /\ UNCHANGED <<result, dbPathSet, exact, names, isDir, walkStack, shardPaths,
                 estTitle, newCounterFn, todo, cur, nfile, reader, openFiles,
                 dbMap, heap, stderr, flushed, c2Cardinality, seriesTotal,
                 fieldsTotal, routed, walked>>

\* lines 142-144: the dashes under the header
ReportDashes ==
  /\ pc = "dashes"
  /\ out' = Append(out, DashLine)
  /\ pc' = "rows"
  /\ UNCHANGED aside
  /\ UNCHANGED <<result, dbPathSet, exact, names, isDir, walkStack, shardPaths,
                 estTitle, newCounterFn, todo, cur, nfile, reader, openFiles,
                 dbMap, heap, stderr, flushed, c2Cardinality, seriesTotal,
                 fieldsTotal, routed, walked>>

\* lines 146-165: one iteration of the innermost loop.  The sums are uint64;
\* no count of the model comes near 2^64
ReportRow ==
  /\ pc = "rows"
  /\ \E t \in NextTriples :
       LET measure == BucketOf(dbMap, t)
       IN  \E seriesN \in CounterCounts(heap[measure.series]),
              fieldsN \in CounterCounts(heap[measure.fields]) :
             /\ out' = Append(out, RowLine(t, seriesN, fieldsN))
             /\ c2Cardinality' = c2Cardinality + seriesN * fieldsN
             /\ seriesTotal' = seriesTotal + seriesN
             /\ fieldsTotal' = fieldsTotal + fieldsN
  /\ UNCHANGED aside
  /\ UNCHANGED <<pc, result, dbPathSet, exact, names, isDir, walkStack,
                 shardPaths, estTitle, newCounterFn, todo, cur, nfile, reader,
                 openFiles, dbMap, heap, stderr, flushed, routed, walked>>

\* lines 167-169: the dashes above the total row
ReportFooter ==
  /\ pc = "rows"
  /\ Pending = {}
  /\ out' = Append(out, DashLine)
  /\ pc' = "total"
  /\ UNCHANGED aside
  /\ UNCHANGED <<result, dbPathSet, exact, names, isDir, walkStack, shardPaths,
                 estTitle, newCounterFn, todo, cur, nfile, reader, openFiles,
                 dbMap, heap, stderr, flushed, c2Cardinality, seriesTotal,
                 fieldsTotal, routed, walked>>

\* lines 170-173: the total row
ReportTotal ==
  /\ pc = "total"
  /\ out' = Append(out, TotalLine(estTitle, seriesTotal, fieldsTotal, c2Cardinality))
  /\ pc' = "flush"
  /\ UNCHANGED aside
  /\ UNCHANGED <<result, dbPathSet, exact, names, isDir, walkStack, shardPaths,
                 estTitle, newCounterFn, todo, cur, nfile, reader, openFiles,
                 dbMap, heap, stderr, flushed, c2Cardinality, seriesTotal,
                 fieldsTotal, routed, walked>>

\* line 174: tw.Flush() and its result
ReportFlush ==
  /\ pc = "flush"
  /\ \E wrote \in BOOLEAN :
       /\ flushed' = wrote
       /\ result' = IF wrote THEN "nil" ELSE "errWrite"
  /\ pc' = "done"
  /\ UNCHANGED aside
  /\ UNCHANGED <<dbPathSet, exact, names, isDir, walkStack, shardPaths, estTitle,
                 newCounterFn, todo, cur, nfile, reader, openFiles, dbMap, heap,
                 stderr, out, c2Cardinality, seriesTotal, fieldsTotal,
                 routed, walked>>

\* lines 139-173: a write to the tabwriter fails and Run returns the error
ReportWriteFail ==
  /\ pc \in {"header", "dashes", "rows", "total"}
  /\ result' = "errWrite"
  /\ pc' = "done"
  /\ UNCHANGED aside
  /\ UNCHANGED <<dbPathSet, exact, names, isDir, walkStack, shardPaths, estTitle,
                 newCounterFn, todo, cur, nfile, reader, openFiles, dbMap, heap,
                 stderr, out, flushed, c2Cardinality, seriesTotal, fieldsTotal,
                 routed, walked>>

Next ==
  \/ Start
  \/ WalkVisit
  \/ WalkError
  \/ NoShards
  \/ SelectCounter
  \/ ScanNextShard
  \/ ShardWalkError
  \/ OpenFail
  \/ ReaderFail
  \/ OpenReader
  \/ ProcessKey
  \/ CloseReader
  \/ ShardWalkDone
  \/ ScanDone
  \/ ReportHeader
  \/ ReportDashes
  \/ ReportRow
  \/ ReportFooter
  \/ ReportTotal
  \/ ReportFlush
  \/ ReportWriteFail

Spec == Init /\ [][Next]_vars

\* ------------------------------------------------- vocabulary of the properties
RoutedTriples == {<<x[1], x[2], x[3]>> : x \in routed}

\* the raw keys processed for a triple
KeysOf(t) == {x[4] : x \in {y \in routed : <<y[1], y[2], y[3]>> = t}}

SeriesCounterOf(t) == heap[BucketOf(dbMap, t).series]

FieldsCounterOf(t) == heap[BucketOf(dbMap, t).fields]

SeriesKeyPart(k) == Cut(k, Sep).before

FieldNamePart(k) == Cut(k, Sep).after

RowSeq == SelectSeq(out, LAMBDA l : l.kind = "row")

TotalLines == {out[i] : i \in {j \in 1..Len(out) : out[j].kind = "total"}}

RECURSIVE SumSeq(_)
SumSeq(q) == IF q = <<>> THEN 0 ELSE Head(q) + SumSeq(Tail(q))

RecordedPaths == {shardPaths[id] : id \in DOMAIN shardPaths}

WalkedCount == SumSeq([n \in 1..Len(walked) |-> walked[n]])

\* discovery ended with no entry in cmd.shardPaths
NoShardFound == pc = "done" /\ walkStack = <<>> /\ DOMAIN shardPaths = {}

\* ------------------------------------------------------------------- claims
\* every recorded shard directory has a name that parses as a number >= 0
ShardNamesNonNegative ==
  \A p \in RecordedPaths : Atoi(names[p]).ok /\ Atoi(names[p]).val >= 0

\* C1: the item added to the series Counter of a bucket is the seriesKeyPart of
\* the key, so in exact mode the series count of every bucket is the number of
\* distinct seriesKeyParts among the keys routed to it (keys that differ only
\* in the field name count as one series).
C1_SeriesCountIsSeriesKeyParts ==
  (exact /\ ShardNamesNonNegative) =>
    \A t \in Triples(dbMap) :
      CounterCounts(SeriesCounterOf(t)) =
        {Cardinality({SeriesKeyPart(k) : k \in KeysOf(t)})}

\* C2: a file that fails to open or whose reader cannot be built adds nothing:
\* at every moment the index is exactly the index built from the keys of the
\* files that were read; such a failure never ends the run, and once the scan
\* is over every recorded shard has been walked.
C2_SkipOnErrorKeepsCounts ==
  /\ Triples(dbMap) = RoutedTriples
  /\ \A t \in Triples(dbMap) :
       /\ SeriesCounterOf(t).items =
            {SeriesItem(k, SeriesKeyPart(k)) : k \in KeysOf(t)}
       /\ FieldsCounterOf(t).items =
            {FieldItem(k, FieldNamePart(k)) : k \in KeysOf(t)}
  /\ "skip" \in stderr => result \in {"none", "nil", "errShardWalk", "errWrite"}
  /\ ("skip" \in stderr /\ pc # "scan" /\ result # "errShardWalk") =>
       /\ todo = {}
       /\ \A p \in RecordedPaths : walked[p] = 1

\* a run that skipped a file, read keys from another and walked two shards to
\* the end
C2_Witness ==
  /\ pc = "done"
  /\ result = "nil"
  /\ "skip" \in stderr
  /\ routed # {}
  /\ WalkedCount = 2

\* C3 as stated: with no shard found Run emits the diagnostic and a report of
\* the header rows and an all-zero total row, and returns no error (stated for
\* the runs in which the diagnostic reached standard error).
C3_NoShardsZeroReport ==
  (NoShardFound /\ "noShards" \in stderr) =>
    /\ result = "nil"
    /\ \E title \in {"", " (estimated)"} :
         out = <<HeaderLine, DashLine, DashLine, TotalLine(title, 0, 0, 0)>>

\* C3 amended: with no shard found Run writes the diagnostic and returns at
\* once with the result of that write (nil when it succeeded); no report line
\* is written and the index stays empty.
C3_NoShardsNoReport ==
  NoShardFound =>
    /\ out = <<>>
    /\ ~flushed
    /\ Triples(dbMap) = {}
    /\ result \in {"nil", "errStderr"}
    /\ (result = "nil") = ("noShards" \in stderr)

C3_Witness == NoShardFound /\ result = "nil" /\ "noShards" \in stderr

\* C4: every row shows series * fields of the counts read from its bucket, and
\* the total row holds the sum of the rows' series counts, the sum of their
\* field counts and the sum of their products.
C4_ReportArithmetic ==
  /\ \A i \in 1..Len(RowSeq) :
       LET l == RowSeq[i]
       IN  /\ l.c2 = l.series * l.fields
           /\ l.series \in CounterCounts(SeriesCounterOf(<<l.d, l.r, l.m>>))
           /\ l.fields \in CounterCounts(FieldsCounterOf(<<l.d, l.r, l.m>>))
  /\ \A l \in TotalLines :
       /\ Reported = Triples(dbMap)
       /\ Len(RowSeq) = Cardinality(Triples(dbMap))
       /\ l.series = SumSeq([i \in 1..Len(RowSeq) |-> RowSeq[i].series])
       /\ l.fields = SumSeq([i \in 1..Len(RowSeq) |-> RowSeq[i].fields])
       /\ l.c2 = SumSeq([i \in 1..Len(RowSeq) |-> RowSeq[i].c2])

\* a total row whose combined cardinality is not the product of its two sums
C4_Witness ==
  \E l \in TotalLines : Len(RowSeq) = 2 /\ l.c2 # l.series * l.fields

\* C5: the index has a bucket for a triple exactly when a key was routed to
\* it, every bucket has its own two counters, and a step never removes or
\* replaces a bucket or a counter: counters only gain items.
C5_BucketsExactlyRouted ==
  /\ Triples(dbMap) = RoutedTriples
  /\ Len(heap) = 2 * Cardinality(Triples(dbMap))
  /\ \A t \in Triples(dbMap) :
       /\ BucketOf(dbMap, t).series \in 1..Len(heap)
       /\ BucketOf(dbMap, t).fields \in 1..Len(heap)
       /\ BucketOf(dbMap, t).series # BucketOf(dbMap, t).fields
  /\ \A t \in Triples(dbMap), u \in Triples(dbMap) :
       t # u => {BucketOf(dbMap, t).series, BucketOf(dbMap, t).fields}
                  \cap {BucketOf(dbMap, u).series, BucketOf(dbMap, u).fields} = {}

C5_BucketsKept ==
  \A t \in Triples(dbMap) :
    /\ t \in Triples(dbMap')
    /\ BucketOf(dbMap', t) = BucketOf(dbMap, t)
    /\ \A a \in {BucketOf(dbMap, t).series, BucketOf(dbMap, t).fields} :
         /\ a \in 1..Len(heap')
         /\ heap'[a].kind = heap[a].kind
         /\ heap[a].items \subseteq heap'[a].items

C5_LazyBuckets == []C5_BucketsExactlyRouted /\ [][C5_BucketsKept]_vars

\* two different keys went to one bucket, which is still the only one
C5_Witness ==
  /\ Cardinality(Triples(dbMap)) = 1
  /\ Cardinality(routed) = 2
  /\ Len(heap) = 2

\* C6: a directory is recorded in cmd.shardPaths only if its name parses as a
\* non-negative integer, and it is recorded under that integer.
C6_OnlyNonNegativeIds ==
  /\ ShardNamesNonNegative
  /\ \A id \in DOMAIN shardPaths : id = Uint64Of(Atoi(names[shardPaths[id]]).val)

RECURSIVE InsideReserved(_)
InsideReserved(n) ==
  /\ Parent[n] # 0
  /\ \/ IsReserved(names[Parent[n]])
     \/ InsideReserved(Parent[n])

OnWalkStack == {walkStack[i] : i \in 1..Len(walkStack)}

\* C7: a directory named as the series file directory or "index" is never
\* recorded as a shard, and nothing inside it is visited or recorded.
C7_ReservedDirsSkipped ==
  \A n \in Nodes :
    /\ IsReserved(names[n]) => n \notin RecordedPaths
    /\ InsideReserved(n) => n \notin RecordedPaths /\ n \notin OnWalkStack

\* the walk is over, a shard was recorded, and a directory with a numeric name
\* lies inside a reserved directory that is not itself inside one
C7_Witness ==
  /\ pc = "scan"
  /\ IsReserved(names[5])
  /\ ~InsideReserved(5)
  /\ Atoi(names[6]).ok
  /\ isDir[6]

\* the measurement a raw key is routed to
MeasurementOf(k) == ParseKey(SeriesKeyPart(k))

\* the raw keys read for a database and retention policy
KeysIn(d, r) == {x[4] : x \in {y \in routed : y[1] = d /\ y[2] = r}}

\* the report rows of a database and retention policy as a function of the set
\* K of its raw keys alone: per measurement, the number of distinct items the
\* keys of K give to each Counter
ExactRows(d, r, K) ==
  {RowLine(<<d, r, m>>,
           Cardinality({SeriesItem(k, SeriesKeyPart(k)) :
                          k \in {j \in K : MeasurementOf(j) = m}}),
           Cardinality({FieldItem(k, FieldNamePart(k)) :
                          k \in {j \in K : MeasurementOf(j) = m}})) :
     m \in {MeasurementOf(k) : k \in K}}

ScenarioKeys == {KeyCpuAValue, KeyCpuBValue, KeyMemAUsed}

Cpu == <<"c">>

Mem == <<"m">>

\* C8: in exact mode the rows of the finished report are a function of the set
\* of raw keys read for each database and retention policy, whatever the order
\* and the repetitions; for the three keys of the scenario in db0/autogen the
\* report is cpu 2 1 2, mem 1 1 1, total 3 2 3.
C8_ExactCountsFromKeySet ==
  (exact /\ TotalLines # {}) =>
    /\ Rows = UNION {ExactRows(x[1], x[2], KeysIn(x[1], x[2])) : x \in routed}
    /\ {<<x[1], x[2], x[4]>> : x \in routed} =
         {<<NameDb0, NameAutogen, k>> : k \in ScenarioKeys}
       => /\ Rows = {RowLine(<<NameDb0, NameAutogen, Cpu>>, 2, 1),
                     RowLine(<<NameDb0, NameAutogen, Mem>>, 1, 1)}
          /\ \A l \in Rows : l.m = Cpu => l.c2 = 2
          /\ \A l \in Rows : l.m = Mem => l.c2 = 1
          /\ TotalLines = {TotalLine("", 3, 2, 3)}

\* the scenario after two shards were walked
C8_Witness ==
  /\ exact
  /\ pc = "done"
  /\ result = "nil"
  /\ walked[4] = 1
  /\ walked[5] = 1
  /\ {<<x[1], x[2], x[4]>> : x \in routed} =
       {<<NameDb0, NameAutogen, k>> : k \in ScenarioKeys}
  /\ TotalLines = {TotalLine("", 3, 2, 3)}

\* C9: the item added to the field Counter of a bucket is the fieldNamePart of
\* the key, so the field Counter of every bucket holds exactly the field names
\* of the keys routed to it, and in exact mode a row shows their number.
C9_FieldItemIsFieldNamePart ==
  /\ \A t \in Triples(dbMap) :
       FieldsCounterOf(t).items = {FieldNamePart(k) : k \in KeysOf(t)}
  /\ exact =>
       \A i \in 1..Len(RowSeq) :
         RowSeq[i].fields =
           Cardinality({FieldNamePart(k) :
                          k \in KeysOf(<<RowSeq[i].d, RowSeq[i].r, RowSeq[i].m>>)})

\* a row of one field name carried by two series
C9_Witness ==
  /\ exact
  /\ \E i \in 1..Len(RowSeq) :
       /\ RowSeq[i].fields = 1
       /\ {KeyCpuAValue, KeyCpuBValue} \subseteq
            KeysOf(<<RowSeq[i].d, RowSeq[i].r, RowSeq[i].m>>)

\* the variant the exact flag asks for
WantedKind == IF exact THEN "exact" ELSE "hll"

\* C10: the strategy is fixed by the exact flag before any key is processed:
\* every Counter of the run is of the variant the flag asks for, and the total
\* row is labelled "total" in an exact run, "total (estimated)" otherwise.
C10_OneStrategyPerRun ==
  /\ \A a \in 1..Len(heap) : heap[a].kind = WantedKind
  /\ pc \in {"start", "walk"} => newCounterFn = "none" /\ routed = {}
  /\ pc = "scan" => newCounterFn = WantedKind
  /\ routed # {} => newCounterFn = WantedKind
  /\ \A l \in TotalLines :
       l.label = (IF exact THEN "total" ELSE "total (estimated)")

\* an approximate run with two buckets and its total row
C10_Witness ==
  /\ ~exact
  /\ Len(heap) = 4
  /\ \E l \in TotalLines : l.label = "total (estimated)"

\* ------------------------------------------------------------------------ C11
\* the results Run can end with when no step of the scan or the walk failed
\* fatally because of a reader.Close()
RunResults == {"none", "nil", "errDbPath", "errWalk", "errStderr",
               "errShardWalk", "errWrite"}

\* a step that closes the reader of the file being read
ClosesReader == reader.open /\ ~reader'.open

\* what a closing step leaves behind, whether reader.Close() failed or not:
\* the run is still scanning the same shard with no result yet, every key of
\* the file was iterated, the index and every Counter are as they were, and no
\* reader is open, so the walk of the shard goes on to its next file
C11_CloseStep ==
  /\ (ClosesReader \/ ("closing" \in stderr' /\ "closing" \notin stderr)) =>
       /\ ClosesReader
       /\ reader.i = reader.n
       /\ pc = "scan" /\ pc' = "scan"
       /\ result' = "none"
       /\ cur' = cur /\ nfile' = nfile /\ todo' = todo
       /\ dbMap' = dbMap /\ heap' = heap /\ routed' = routed
       /\ out' = out

\* C11: a failure of reader.Close() after the keys of a file were iterated is
\* only reported: the warning is written by a closing step, that step does not
\* end the run and changes no count already added, the walk goes on with the
\* next file, and no run ends with an error of its own for the failed close.
C11_CloseFailureIsWarning ==
  /\ [](result \in RunResults)
  /\ [][C11_CloseStep]_vars

\* witness: the first file of the first shard added keys, its close failed, and
\* the second file of that shard is being read with those keys still counted
C11_Witness ==
  /\ "closing" \in stderr
  /\ stderr \subseteq {"closing"}
  /\ WalkedCount = 1
  /\ nfile = 2
  /\ reader.open /\ reader.i = 1
  /\ Cardinality(routed) = 2

\* ------------------------------------------------------------------------ C12
\* the separator occurs nowhere in k
HasNoSeparator(k) ==
  \A i \in 1..(Len(k) - Len(Sep) + 1) : SubSeq(k, i, i + Len(Sep) - 1) # Sep

\* the keys without separator that were processed, with their bucket
RoutedWithoutSeparator == {x \in routed : HasNoSeparator(x[4])}

\* C12: a raw key without the separator raises no error: the whole key is its
\* seriesKeyPart and its fieldNamePart is empty, the key is routed to the bucket
\* of the measurement parsed from the whole key, the key is in the series
\* Counter and the empty field name in the field Counter of that bucket, and
\* the run goes on (it has no result that such a key caused).
C12_KeyWithoutSeparator ==
  /\ result \in RunResults
  /\ \A x \in RoutedWithoutSeparator :
       LET k == x[4]
           t == <<x[1], x[2], x[3]>>
       IN  /\ SeriesKeyPart(k) = k
           /\ FieldNamePart(k) = <<>>
           /\ x[3] = ParseKey(k)
           /\ t \in Triples(dbMap)
           /\ k \in SeriesCounterOf(t).items
           /\ <<>> \in FieldsCounterOf(t).items

\* witness: a key without separator was processed and the key after it in the
\* same file was processed too
C12_Witness ==
  /\ RoutedWithoutSeparator # {}
  /\ routed \ RoutedWithoutSeparator # {}
  /\ WalkedCount = 1 /\ nfile = 1
  /\ reader.open /\ reader.i = 2
  /\ \E t \in Triples(dbMap) :
       FieldsCounterOf(t).items = {<<>>} /\ KeysOf(t) = {KeyNoSep}

\* ------------------------------------------------------------------------ C13
\* the directories that shard discovery records when the walk is not cut short
Qualifying ==
  {n \in Nodes : /\ isDir[n]
                 /\ ~IsReserved(names[n])
                 /\ ~InsideReserved(n)
                 /\ Atoi(names[n]).ok}

\* Run is past shard discovery and discovery returned no error
PastDiscovery == pc \notin {"start", "walk"} /\ result \notin {"errDbPath", "errWalk"}

\* C13: an error raised while walking the root during shard discovery is
\* fatal: Run returns that error having opened no storage file, with the index
\* empty and no line of the report or of a diagnostic written; a run that gets
\* past discovery has walked the whole tree without error.
C13_WalkErrorIsFatal ==
  /\ result = "errWalk" =>
       /\ pc = "done"
       /\ out = <<>> /\ ~flushed /\ stderr = {}
       /\ Triples(dbMap) = {} /\ heap = <<>> /\ routed = {}
       /\ openFiles = {} /\ ~reader.open /\ nfile = 0
       /\ WalkedCount = 0
  /\ PastDiscovery =>
       /\ walkStack = <<>>
       /\ \A n \in Qualifying : ToUint64(Atoi(names[n]).val) \in DOMAIN shardPaths

\* witness: the walk failed after it had already recorded a shard
C13_Witness ==
  /\ result = "errWalk"
  /\ pc = "done"
  /\ DOMAIN shardPaths # {}
  /\ walkStack # <<>>

\* ------------------------------------------------------------------------ C15
\* the report has started: Run is writing it or has ended after starting it
ReportPhases == {"header", "dashes", "rows", "total", "flush"}

ReportStarted == pc \in ReportPhases \/ out # <<>> \/ flushed

\* every entry of cmd.shardPaths was taken by the range loop, its walk was
\* started once and has returned, and no reader is left open
ScanOver ==
  /\ todo = {}
  /\ cur = 0
  /\ ~reader.open /\ openFiles = {}
  /\ \A p \in RecordedPaths : walked[p] = 1

\* the rows written so far read each bucket once, and the total line is written
\* only when every bucket of the index has its row
BucketsReadOnce ==
  /\ Len(RowSeq) = Cardinality(Reported)
  /\ Reported \subseteq Triples(dbMap)
  /\ TotalLines # {} => Reported = Triples(dbMap)

\* no step taken once the report has started changes the index, a Counter or
\* the progress of the scan
C15_ReportStep ==
  ReportStarted =>
    /\ dbMap' = dbMap /\ heap' = heap /\ routed' = routed
    /\ todo' = todo /\ cur' = cur /\ walked' = walked
    /\ reader' = reader /\ openFiles' = openFiles

\* C15: the report is produced only after the scan is over: no line of the
\* report is written before every recorded shard was fully processed, the index
\* is not changed once the report has started, and the rows read the counters
\* of each bucket exactly once.
C15_ReportAfterScan ==
  /\ [](ReportStarted => ScanOver)
  /\ [](ReportStarted => BucketsReadOnce)
  /\ [][C15_ReportStep]_vars

\* witness: the report of a scan over two shards and two buckets was flushed
C15_Witness ==
  /\ pc = "done" /\ flushed
  /\ WalkedCount = 2
  /\ Cardinality(Triples(dbMap)) = 2
  /\ Len(RowSeq) = 2
  /\ Cardinality(TotalLines) = 1

\* ------------------------------------------------------------------------ C18
\* the walk of a shard returned an error
ShardWalkFailed == "shardWalk" \in stderr

\* the step in which the walk of a shard fails ends the run
C18_FailStep ==
  (~ShardWalkFailed /\ ShardWalkFailed') =>
    /\ pc = "scan" /\ cur # 0
    /\ pc' = "done"
    /\ result' = "errShardWalk"
    /\ todo' = todo /\ walked' = walked
    /\ dbMap' = dbMap /\ heap' = heap /\ out' = out

\* C18: when the walk of one shard returns an error, Run returns that error at
\* once: the shards not yet taken by the loop are never processed, no line of
\* the report is written and the counts accumulated so far are not reported.
C18_ShardWalkErrorIsFatal ==
  /\ [](ShardWalkFailed <=> result = "errShardWalk")
  /\ [](ShardWalkFailed =>
          /\ pc = "done"
          /\ out = <<>> /\ ~flushed
          /\ \A id \in todo : walked[shardPaths[id]] = 0)
  /\ [][C18_FailStep]_vars

\* witness: the walk of the first shard failed after keys of it were counted,
\* and the second shard is still to be processed
C18_Witness ==
  /\ result = "errShardWalk"
  /\ routed # {}
  /\ Triples(dbMap) # {}
  /\ Cardinality(todo) = 1
  /\ WalkedCount = 1

\* ------------------------------------------------------------------------ C19
\* the scan loop ended without a fatal error
ScanCompleted == pc \in ReportPhases \/ (pc = "done" /\ result \in {"nil", "errWrite"} /\ ~NoShardFound)

\* C19: every directory that qualifies as a shard (its name parses as an
\* integer and it lies in no skipped directory) is passed to the shard walk
\* exactly once, also when two such directories have names that parse to the
\* same integer: never more than once, and once when the scan has completed.
C19_EveryShardDirWalkedOnce ==
  /\ \A n \in Nodes : walked[n] <= 1
  /\ ScanCompleted => \A n \in Qualifying : walked[n] = 1

\* ------------------------------------------------------------------------ C20
\* no level of the index is empty and no Counter of a bucket is empty
NoEmptyLevel ==
  /\ \A d \in DOMAIN dbMap :
       /\ DOMAIN dbMap[d] # {}
       /\ \A r \in DOMAIN dbMap[d] : DOMAIN dbMap[d][r] # {}
  /\ \A t \in Triples(dbMap) :
       /\ SeriesCounterOf(t).items # {}
       /\ FieldsCounterOf(t).items # {}

\* in exact mode every row of the report shows at least one series, one field
\* and a combined cardinality of at least one
ExactRowsPositive ==
  newCounterFn = "exact" =>
    \A l \in Rows : l.series >= 1 /\ l.fields >= 1 /\ l.c2 >= 1

\* entries of the index and items of the Counters are never taken away
C20_Grows ==
  /\ Triples(dbMap) \subseteq Triples(dbMap')
  /\ \A t \in Triples(dbMap) :
       /\ BucketOf(dbMap', t) = BucketOf(dbMap, t)
       /\ heap[BucketOf(dbMap, t).series].items \subseteq
            heap'[BucketOf(dbMap, t).series].items
       /\ heap[BucketOf(dbMap, t).fields].items \subseteq
            heap'[BucketOf(dbMap, t).fields].items

\* C20: after each key the index has no empty level and no empty bucket: every
\* database entry has a retention policy, every retention policy a measurement,
\* every bucket has an item in its series Counter and one in its field Counter,
\* so every row of an exact report shows counts of at least one; entries and
\* counts never decrease.
C20_NoEmptyBucket ==
  /\ [](NoEmptyLevel /\ ExactRowsPositive)
  /\ [][C20_Grows]_vars

\* witness: an exact report row of a bucket whose only key has no separator,
\* so that its one field name is the empty one
C20_Witness ==
  /\ newCounterFn = "exact"
  /\ \E l \in Rows :
       /\ l.series = 1 /\ l.fields = 1 /\ l.c2 = 1
       /\ FieldsCounterOf(<<l.d, l.r, l.m>>).items = {<<>>}
  /\ Cardinality(Triples(dbMap)) = 2

\* ------------------------------------------------ the decomposition on its own
\* longest raw key handed to the decomposition
MaxKeyLen == 8

\* the bytes of those keys: the three of the separator and one other
KeyAlphabet == {"#", "!", "~", "a"}

\* reader.KeyAt(i): any byte string may be a key of a storage file
RawKeys == UNION {[1..n -> KeyAlphabet] : n \in 0..MaxKeyLen}

\* the state in which lines 117-118 are looked at alone: a key was read and
\* nothing else of the run matters
InitCut ==
  /\ pc = "key"
  /\ cutKey \in RawKeys
  /\ cutParts = Cut(<<>>, Sep)
  /\ result = "none"
  /\ dbPathSet = TRUE
  /\ exact = TRUE
  /\ names = <<NameData, NameDb0, NameAutogen, Name7, Name8, NameIndex>>
  /\ isDir = <<TRUE, TRUE, TRUE, TRUE, TRUE, TRUE>>
  /\ walkStack = <<>>
  /\ shardPaths = EmptyMap
  /\ estTitle = ""
  /\ newCounterFn = "exact"
  /\ todo = {}
  /\ cur = 0
  /\ nfile = 0
  /\ reader = NoReader
  /\ openFiles = {}
  /\ dbMap = EmptyMap
  /\ heap = <<>>
  /\ stderr = {}
  /\ out = <<>>
  /\ flushed = FALSE
  /\ c2Cardinality = 0
  /\ seriesTotal = 0
  /\ fieldsTotal = 0
  /\ routed = {}
  /\ walked = [n \in Nodes |-> 0]
  /\ concurrency = 1

\* line 118: seriesKey, field, _ := bytes.Cut(key, []byte("#!~#"))
Decompose ==
  /\ pc = "key"
  /\ cutParts' = Cut(cutKey, Sep)
  /\ pc' = "parts"
  /\ UNCHANGED <<cutKey, concurrency>>
  /\ UNCHANGED <<result, dbPathSet, exact, names, isDir, walkStack, shardPaths,
                 estTitle, newCounterFn, todo, cur, nfile, reader, openFiles,
                 dbMap, heap, stderr, out, flushed, c2Cardinality, seriesTotal,
                 fieldsTotal, routed, walked>>

NextCut == Decompose

SpecCut == InitCut /\ [][NextCut]_vars

\* ------------------------------------------------------------------------ C14
\* the positions of k at which the separator starts
Occurrences(k) ==
  {i \in 1..(Len(k) - Len(Sep) + 1) : SubSeq(k, i, i + Len(Sep) - 1) = Sep}

\* C14: the decomposition splits on the first occurrence of the separator: for
\* every key in which the separator occurs, the seriesKeyPart is the prefix
\* before the first occurrence and holds no separator, and seriesKeyPart, then
\* the separator, then fieldNamePart is the key again (so also for the keys in
\* which it occurs exactly once).
C14_SplitOnFirstSeparator ==
  (pc = "parts" /\ Occurrences(cutKey) # {}) =>
    LET first == CHOOSE i \in Occurrences(cutKey) :
                   \A j \in Occurrences(cutKey) : i <= j
    IN  /\ cutParts.before = SubSeq(cutKey, 1, first - 1)
        /\ Occurrences(cutParts.before) = {}
        /\ cutParts.before \o Sep \o cutParts.after = cutKey

\* witness: a key in which the separator occurs twice was decomposed, and its
\* fieldNamePart keeps the second occurrence
C14_Witness ==
  /\ pc = "parts"
  /\ Cardinality(Occurrences(cutKey)) = 2
  /\ cutParts.found
  /\ Occurrences(cutParts.after) # {}

\* ------------------------------------------- the run at every concurrency level
\* Run started with any value of -c, on a tree with two shard directories or
\* with none
InitSeq ==
  /\ pc = "start"
  /\ result = "none"
  /\ dbPathSet \in BOOLEAN
  /\ exact = TRUE
  /\ concurrency \in ConcurrencyLevels
  /\ \E rp \in {NameAutogen, NameIndex} :
       names = <<NameData, NameDb0, rp, Name7, Name8, NameIndex>>
  /\ isDir = <<TRUE, TRUE, TRUE, TRUE, TRUE, TRUE>>
  /\ walkStack = <<1>>
  /\ shardPaths = EmptyMap
  /\ estTitle = " (estimated)"
  /\ newCounterFn = "none"
  /\ todo = {}
  /\ cur = 0
  /\ nfile = 0
  /\ reader = NoReader
  /\ openFiles = {}
  /\ dbMap = EmptyMap
  /\ heap = <<>>
  /\ stderr = {}
  /\ out = <<>>
  /\ flushed = FALSE
  /\ c2Cardinality = 0
  /\ seriesTotal = 0
  /\ fieldsTotal = 0
  /\ routed = {}
  /\ walked = [n \in Nodes |-> 0]
  /\ cutKey = <<>>
  /\ cutParts = Cut(<<>>, Sep)

SpecSeq == InitSeq /\ [][Next]_vars

\* ------------------------------------------------------------------------ C16
\* the storage file the walk callback is working on
CurrentFile == <<cur, nfile>>

\* at most one storage file is open, and it is the file of the open reader; no
\* file is open when the report has started or the run has ended
OneFileOpen ==
  /\ Cardinality(openFiles) <= 1
  /\ openFiles = IF reader.open THEN {CurrentFile} ELSE {}
  /\ (ReportStarted \/ pc = "done") => openFiles = {}
  /\ reader.open => reader.i <= reader.n

\* a file is opened only when none is open; the index and the Counters are
\* changed only by the one open reader, which takes its keys in index order
C16_SequentialStep ==
  /\ openFiles' \ openFiles # {} => openFiles = {}
  /\ (dbMap' # dbMap \/ heap' # heap \/ routed' # routed) =>
       /\ reader.open /\ reader.i < reader.n
       /\ reader' = [reader EXCEPT !.i = reader.i + 1]
       /\ openFiles' = openFiles /\ cur' = cur /\ nfile' = nfile
  /\ (reader.open /\ reader'.open) => reader'.i \in {reader.i, reader.i + 1}
  /\ (~reader.open /\ reader'.open) => reader'.i = 0
  /\ (reader.open /\ ~reader'.open) => reader.i = reader.n
  /\ concurrency' = concurrency

InitFair ==
  /\ pc = "start"
  /\ result = "none"
  /\ dbPathSet \in BOOLEAN
  /\ exact \in BOOLEAN
  /\ concurrency = 1
  /\ \E rp \in {NameAutogen, NameIndex} :
       names = <<NameData, NameDb0, rp, Name7, Name8, NameIndex>>
  /\ isDir = <<TRUE, TRUE, TRUE, FALSE, TRUE, TRUE>>
  /\ walkStack = <<1>>
  /\ shardPaths = EmptyMap
  /\ estTitle = " (estimated)"
  /\ newCounterFn = "none"
  /\ todo = {}
  /\ cur = 0
  /\ nfile = 0
  /\ reader = NoReader
  /\ openFiles = {}
  /\ dbMap = EmptyMap
  /\ heap = <<>>
  /\ stderr = {}
  /\ out = <<>>
  /\ flushed = FALSE
  /\ c2Cardinality = 0
  /\ seriesTotal = 0
  /\ fieldsTotal = 0
  /\ routed = {}
  /\ walked = [n \in Nodes |-> 0]
  /\ cutKey = <<>>
  /\ cutParts = Cut(<<>>, Sep)

\* Run is one sequential goroutine that keeps executing: whenever it has a next
\* step, it takes one
FairSpec == InitFair /\ [][Next]_vars /\ WF_vars(Next)

\* the run has ended: it completed with the report flushed or with the
\* diagnostic of no shards, or a fatal error ended it
RunEnded ==
  /\ pc = "done"
  /\ \/ result = "nil" /\ (flushed \/ NoShardFound)
     \/ result \in {"errDbPath", "errWalk", "errStderr", "errShardWalk",
                    "errWrite"}

\* no shard directory was walked twice
NoShardTwice == \A n \in Nodes : walked[n] <= 1

\* C17: for every finite set of shards, files and keys and every pattern of
\* failures the run eventually ends and stays ended, as completed (the report
\* flushed or the diagnostic of no shards written) or as ended by a fatal
\* error, having walked no shard a second time: it never goes back to a file
\* and never waits.
C17_RunTerminates == <>[](RunEnded /\ NoShardTwice)

\* witness: a run over a shard with a skipped file and a failed close has
\* completed with its report flushed
C17_Witness ==
  /\ pc = "done" /\ result = "nil" /\ flushed
  /\ WalkedCount = 1
  /\ {"skip", "closing"} \subseteq stderr
  /\ routed # {}

====
